---- MODULE Spec2Model ----
(***************************************************************************)
(* SupraSonic core: the audio capture pipeline (core/src/audio.rs), the    *)
(* dispatch loop and recording state (core/src/state.rs) and the speaker   *)
(* registry (core/src/diarization.rs) as one state machine.                *)
(*                                                                         *)
(* Threads modelled: the callers of AppState, the AudioEngine command      *)
(* thread, the cpal audio callback, one process_audio worker per built     *)
(* stream, and the AppState background dispatch loop.                      *)
(***************************************************************************)
EXTENDS Integers, Sequences, FiniteSets, TLC

(***************************************************************************)
(* Program constants.                                                      *)
(***************************************************************************)
\* audio.rs:25  const TARGET_SAMPLE_RATE: usize = 16000
TARGET_SAMPLE_RATE == 16000
\* state.rs:52  let mut sample_rate = 48000
INITIAL_SAMPLE_RATE == 48000

(***************************************************************************)
(* Buffer sizes.  The program's values (480, 80000, 1024, 1024) are scaled *)
(* down so that sample sequences can be enumerated; the order relations    *)
(* the code relies on are kept: a passthrough read can hold more than two  *)
(* chunks, and the ring buffer is larger than one read.                    *)
(***************************************************************************)
\* audio.rs:27  ASR_CHUNK_SIZE (480 in the program)
ASR_CHUNK_SIZE == 2
\* audio.rs:28  RING_BUFFER_SIZE (80000 in the program)
RING_BUFFER_SIZE == 6
\* audio.rs:168 passthrough read quantum (1024 in the program)
PASSTHROUGH_READ_MAX == 5
\* audio.rs:119 resampler input chunk_size (1024 in the program)
RESAMPLER_CHUNK == 2

(***************************************************************************)
(* Bounds of the exploration.                                              *)
(***************************************************************************)
\* start_recording / stop_recording calls (one worker can be spawned per Start).
MaxCmds == 3
\* Samples the device delivers to one stream in the whole-engine runs.
MaxSamples == 4
\* Samples the device delivers in the single-session runs (more than the
\* ring buffer holds).
MaxWorkerSamples == 8
\* Largest hardware buffer handed to one audio callback.
MaxPush == 2
\* set_listener calls.
MaxSets == 2
\* Packets put on the channel in the dispatch-only runs.
MaxPackets == 4
\* register_speaker calls.
MaxRegs == 2
\* start_recording / stop_recording calls in the whole-program runs.
MaxPipeCmds == 2
\* Samples the device delivers to one stream in the whole-program runs.
MaxPipeSamples == 4
\* set_listener calls in the whole-program runs.
MaxPipeSets == 1
\* Samples the device delivers to one stream in the recording-flag runs.
MaxStateSamples == 2

Sessions == 1..MaxCmds

\* Native device rates: the target rate (passthrough) and one other.
DeviceRates == {TARGET_SAMPLE_RATE, 48000}

NoStream == 0

\* Threads calling register_speaker.
RegThreads == {1, 2}

\* Threads calling start_recording and stop_recording concurrently.
CallThreads == {1, 2}

NoThread == 0

VARIABLES
    \* ---- AudioEngine (audio.rs)
    cmdQ,        \* command channel: sequence of "Start" / "Stop"
    stream,      \* the command thread's Option<cpal::Stream>: NoStream or a session
    openStreams, \* sessions whose cpal::Stream object exists (not yet dropped)
    nBuilt,      \* number of workers spawned so far (sessions 1..nBuilt exist)
    wpc,         \* per session: worker position
    srcRate,     \* per session: source_sample_rate given to process_audio
    ring,        \* per session: ring buffer contents (oldest first)
    acc,         \* per session: accumulated_samples
    chunk,       \* per session: the chunk drained and not yet sent
    chan,        \* packet channel: every packet ever sent, in channel order
    \* ---- history of one session's samples (observation only)
    written,     \* per session: samples the device handed to the callback
    popped,      \* per session: samples popped from the ring buffer
    dropped,     \* per session: number of samples push_slice did not take
    appended,    \* per session: samples appended to accumulated_samples
    fedIn,       \* per session: frames handed to the resampler
    nNoop,       \* Start commands consumed while a stream was held
    stopped,     \* sessions whose stream the command thread dropped on a Stop
    errored,     \* sessions whose stream error callback has run
    polls,       \* per session: parity of the worker's loop passes that read nothing
    \* ---- AppState (state.rs)
    is_recording,
    callerPc,    \* position of the caller inside stop_recording
    nCmds,       \* start_recording / stop_recording calls made
    \* ---- start_recording / stop_recording statement by statement (state.rs)
    callPc,      \* per calling thread: position inside its call
    callOp,      \* per calling thread: "Start" or "Stop", the call it is in
    audioHolder, \* the thread holding the `audio` mutex (0: none)
    cmdLog,      \* every command these calls put on the command channel, in order
    flagLog,     \* every value these calls wrote to is_recording, in order
    \* ---- dispatch loop and listener slot (state.rs)
    rdIdx,       \* packets of chan already received by the loop
    dpc,         \* loop position: "recv", "level_cb", "audio_cb"
    audio_buffer,
    sample_rate,
    listener,    \* the listener slot: 0 (None) or a listener id
    lockHolder,  \* holder of the listener mutex: "none" or "dispatch"
    calls,       \* every callback started, in order
    inCall,      \* the listener a callback is executing on (0: none)
    \* ---- history of the dispatch loop (observation only)
    seen,        \* per received packet: the listener slot when it was handled
    batch,       \* samples received since the last Flush was received
    staleIds,    \* samples cleared by a Flush that found no listener
    nInjected,   \* packets put on the channel directly (dispatch-only runs)
    nSets,       \* set_listener calls made
    \* ---- DiarizationService (diarization.rs)
    registry,    \* the service's in-memory SpeakerRegistry
    file,        \* the file at storage_path
    reloaded,    \* registry of a second service built from storage_path
    rpc,         \* per caller of register_speaker: "idle" or "save"
    nRegs,       \* register_speaker calls made
    \* ---- history of the registry (observation only)
    loadedReg,   \* the registry DiarizationService::new built from the file
    addLog,      \* every add_speaker made, in order: [id, name]
    regCall      \* per caller: its id and name, and the registry right after its add

engineVars == <<cmdQ, stream, openStreams, nBuilt, wpc, srcRate, ring, acc, chunk, chan>>
histVars == <<written, popped, dropped, appended, fedIn, nNoop, stopped, errored, polls>>
callVars == <<callPc, callOp, audioHolder, cmdLog, flagLog>>
appVars == <<is_recording, callerPc, nCmds, callVars>>
dispVars == <<rdIdx, dpc, audio_buffer, sample_rate, listener, lockHolder,
              calls, inCall, seen, batch, staleIds, nInjected, nSets>>
regVars == <<registry, file, reloaded, rpc, nRegs, loadedReg, addLog, regCall>>
vars == <<engineVars, histVars, appVars, dispVars, regVars>>

(***************************************************************************)
(* Values and helpers.                                                     *)
(***************************************************************************)
Min(a, b) == IF a < b THEN a ELSE b

Abs(x) == IF x < 0 THEN -x ELSE x

RECURSIVE Flatten(_)
Flatten(ss) == IF ss = <<>> THEN <<>> ELSE Head(ss) \o Flatten(Tail(ss))

\* The k-th sample the device hands to session w: distinct values of both
\* signs, so that order, identity and peak amplitude can all be observed.
Sample(w, k) ==
    LET v == (w - 1) * (MaxSamples + 1) + k
    IN  IF v % 2 = 0 THEN -v ELSE v

\* AudioPacket (audio.rs:8-13).  "src"/"sess" name the sending thread; they
\* are not part of the packet and no operation of the program reads them.
FormatPkt(src, w, r) ==
    [type |-> "Format", src |-> src, sess |-> w, rate |-> r, data |-> <<>>, level |-> 0]
SamplesPkt(src, w, d) ==
    [type |-> "Samples", src |-> src, sess |-> w, rate |-> 0, data |-> d, level |-> 0]
LevelPkt(src, w, l) ==
    [type |-> "Level", src |-> src, sess |-> w, rate |-> 0, data |-> <<>>, level |-> l]
FlushPkt(src) ==
    [type |-> "Flush", src |-> src, sess |-> 0, rate |-> 0, data |-> <<>>, level |-> 0]

(***************************************************************************)
(* Ring buffer (ringbuf::HeapRb, split into producer and consumer).        *)
(***************************************************************************)
\* producer.push_slice(data): copies as many leading elements as fit and
\* returns without waiting; the rest of the slice is not stored.
PushSlice_Overwrite(rb, data) ==
    LET all == rb \o data
    IN  IF Len(all) <= RING_BUFFER_SIZE THEN all
        ELSE SubSeq(all, Len(all) - RING_BUFFER_SIZE + 1, Len(all))

PushSlice(rb, data) ==
    rb \o SubSeq(data, 1, Min(Len(data), RING_BUFFER_SIZE - Len(rb)))

\* consumer.pop_slice(&mut buf) with buf.len() = n: the elements removed.
PopSlice(rb, n) == SubSeq(rb, 1, Min(n, Len(rb)))

\* The ring buffer after pop_slice(buf) with buf.len() = n.
AfterPop(rb, n) == SubSeq(rb, Min(n, Len(rb)) + 1, Len(rb))

(***************************************************************************)
(* process_audio helpers.                                                  *)
(***************************************************************************)
\* resampler: Some iff source_rate != TARGET_SAMPLE_RATE (FastFixedIn::new is
\* taken to succeed for the device rates modelled)
HasResampler(w) == srcRate[w] # TARGET_SAMPLE_RATE

\* r.process(&waves_in): one fixed-size input frame in, about
\* len * TARGET/source frames out.  The output is represented by the input
\* frames it is centred on (every (source/TARGET)-th one).
ResamplerProcess(frame, rate) ==
    LET step == rate \div TARGET_SAMPLE_RATE
        n == (Len(frame) + step - 1) \div step
    IN  [i \in 1..n |-> frame[(i - 1) * step + 1]]

\* let mut max = 0.0; for &s in &chunk { if s.abs() > max { max = s.abs() } }
RECURSIVE PeakFrom(_, _)
PeakFrom(c, max) ==
    IF c = <<>> THEN max
    ELSE PeakFrom(Tail(c), IF Abs(Head(c)) > max THEN Abs(Head(c)) ELSE max)

RECURSIVE MaxFrom(_, _)
MaxFrom(c, max) ==
    IF c = <<>> THEN max
    ELSE MaxFrom(Tail(c), IF Head(c) > max THEN Head(c) ELSE max)

PeakLevel_NoAbs(c) == MaxFrom(c, 0)

PeakLevel(c) == PeakFrom(c, 0)

\* accumulated_samples.len() >= ASR_CHUNK_SIZE
ChunkReady_Off(a) == Len(a) > ASR_CHUNK_SIZE

ChunkReady(a) == Len(a) >= ASR_CHUNK_SIZE

(***************************************************************************)
(* AudioEngine command thread (audio.rs:34-65) and build_stream.           *)
(***************************************************************************)
\* if stream.is_some() { continue; }
StreamIsSome_Never == FALSE

StreamIsSome == stream # NoStream

\* Start while a stream is held: the command is consumed and nothing else.
CtrlStartHeld ==
    /\ cmdQ # <<>> /\ Head(cmdQ) = "Start"
    /\ StreamIsSome
    /\ cmdQ' = Tail(cmdQ)
    /\ nNoop' = nNoop + 1
    /\ UNCHANGED <<stream, openStreams, nBuilt, wpc, srcRate, ring, acc, chunk, chan>>
    /\ UNCHANGED <<written, popped, dropped, appended, fedIn, stopped, errored, polls>>
    /\ UNCHANGED <<appVars, dispVars, regVars>>

\* build_stream fails before the Format packet: no input device, or
\* default_input_config() fails (audio.rs:74-77).
CtrlStartNoDevice ==
    /\ cmdQ # <<>> /\ Head(cmdQ) = "Start"
    /\ ~StreamIsSome
    /\ cmdQ' = Tail(cmdQ)
    /\ UNCHANGED <<stream, openStreams, nBuilt, wpc, srcRate, ring, acc, chunk, chan>>
    /\ UNCHANGED <<histVars, appVars, dispVars, regVars>>

\* The rate build_stream announces for a device of native rate
\* source_sample_rate (audio.rs:83-84, "always 16kHz now").
FormatRate_Native(source_sample_rate) == source_sample_rate

FormatRate(source_sample_rate) == TARGET_SAMPLE_RATE

\* build_stream up to the spawn of process_audio (audio.rs:78-93): the
\* Format packet is sent, the ring buffer created, the worker spawned.
SpawnSession(w, rate) ==
    /\ chan' = Append(chan, FormatPkt("ctrl", w, FormatRate(rate)))
    /\ nBuilt' = w
    /\ wpc' = [wpc EXCEPT ![w] = "read"]
    /\ srcRate' = [srcRate EXCEPT ![w] = rate]
    /\ UNCHANGED <<ring, acc, chunk>>

\* build_input_stream fails (audio.rs:96-105), or play() fails
\* (audio.rs:46-47): the stream is not kept, the worker already runs.
CtrlStartStreamFails ==
    /\ cmdQ # <<>> /\ Head(cmdQ) = "Start"
    /\ ~StreamIsSome
    /\ nBuilt < MaxCmds
    /\ cmdQ' = Tail(cmdQ)
    /\ \E rate \in DeviceRates : SpawnSession(nBuilt + 1, rate)
    /\ UNCHANGED <<stream, openStreams>>
    /\ UNCHANGED <<histVars, appVars, dispVars, regVars>>

\* build_stream and play() succeed: stream = Some(s) (audio.rs:45-51).
CtrlStartOk ==
    /\ cmdQ # <<>> /\ Head(cmdQ) = "Start"
    /\ ~StreamIsSome
    /\ nBuilt < MaxCmds
    /\ cmdQ' = Tail(cmdQ)
    /\ \E rate \in DeviceRates : SpawnSession(nBuilt + 1, rate)
    /\ stream' = nBuilt + 1
    /\ openStreams' = (openStreams \ {stream}) \cup {nBuilt + 1}
    /\ UNCHANGED <<histVars, appVars, dispVars, regVars>>

\* AudioCommand::Stop (audio.rs:56-62): drop the stream, send Flush.
CtrlStop ==
    /\ cmdQ # <<>> /\ Head(cmdQ) = "Stop"
    /\ cmdQ' = Tail(cmdQ)
    /\ stream' = NoStream
    /\ openStreams' = openStreams \ {stream}
    /\ chan' = Append(chan, FlushPkt("ctrl"))
    /\ stopped' = stopped \cup ({stream} \ {NoStream})
    /\ UNCHANGED <<nBuilt, wpc, srcRate, ring, acc, chunk>>
    /\ UNCHANGED <<written, popped, dropped, appended, fedIn, nNoop, errored, polls>>
    /\ UNCHANGED <<appVars, dispVars, regVars>>

(***************************************************************************)
(* The audio callback of the held stream (audio.rs:98-100).                *)
(***************************************************************************)
AudioCallbackOn(w, n) ==
    LET k == Len(written[w])
        data == [i \in 1..n |-> Sample(w, k + i)]
        rb == PushSlice(ring[w], data)
    IN  /\ ring' = [ring EXCEPT ![w] = rb]
        /\ written' = [written EXCEPT ![w] = @ \o data]
        /\ dropped' = [dropped EXCEPT ![w] = @ + (Len(ring[w]) + n - Len(rb))]

AudioCallbackUpTo(limit) ==
    /\ \E w \in openStreams, n \in 1..MaxPush :
          /\ Len(written[w]) + n <= limit
          /\ AudioCallbackOn(w, n)
    /\ UNCHANGED <<cmdQ, stream, openStreams, nBuilt, wpc, srcRate, acc, chunk, chan>>
    /\ UNCHANGED <<popped, appended, fedIn, nNoop, stopped, errored, polls>>
    /\ UNCHANGED <<appVars, dispVars, regVars>>

AudioCallback == AudioCallbackUpTo(MaxSamples)

\* The error callback of a held stream (audio.rs:101-103): it logs, and
\* nothing else; the command thread keeps the stream.
StreamError ==
    /\ \E w \in openStreams \ errored : errored' = errored \cup {w}
    /\ UNCHANGED <<written, popped, dropped, appended, fedIn, nNoop, stopped, polls>>
    /\ UNCHANGED <<engineVars, appVars, dispVars, regVars>>

(***************************************************************************)
(* process_audio, the worker loop of one session (audio.rs:141-190).       *)
(***************************************************************************)
\* Passthrough arm (audio.rs:167-172).
WorkerReadPassthrough(w) ==
    LET n == Min(Len(ring[w]), PASSTHROUGH_READ_MAX)
        got == PopSlice(ring[w], n)
        a == acc[w] \o got
    IN  /\ wpc[w] = "read"
        /\ ~HasResampler(w)
        /\ Len(ring[w]) > 0
        /\ ring' = [ring EXCEPT ![w] = AfterPop(ring[w], n)]
        /\ popped' = [popped EXCEPT ![w] = @ \o got]
        /\ acc' = [acc EXCEPT ![w] = a]
        /\ appended' = [appended EXCEPT ![w] = @ \o got]
        /\ wpc' = [wpc EXCEPT ![w] = IF ChunkReady(a) THEN "chunk" ELSE "read"]
        /\ UNCHANGED <<fedIn, written, dropped, nNoop, stopped, errored, polls>>

\* if available >= required_input (audio.rs:153)
EnoughInput_Any(available, required_input) == available > 0

EnoughInput(available, required_input) == available >= required_input

\* Resampler arm (audio.rs:150-165), taken when enough input is available.
WorkerReadResample(w) ==
    LET required_input == RESAMPLER_CHUNK
        got == PopSlice(ring[w], required_input)
        out == ResamplerProcess(got, srcRate[w])
        a == acc[w] \o out
    IN  /\ wpc[w] = "read"
        /\ HasResampler(w)
        /\ EnoughInput(Len(ring[w]), required_input)
        /\ ring' = [ring EXCEPT ![w] = AfterPop(ring[w], required_input)]
        /\ popped' = [popped EXCEPT ![w] = @ \o got]
        /\ fedIn' = [fedIn EXCEPT ![w] = Append(@, got)]
        /\ acc' = [acc EXCEPT ![w] = a]
        /\ appended' = [appended EXCEPT ![w] = @ \o out]
        /\ wpc' = [wpc EXCEPT ![w] = IF ChunkReady(a) THEN "chunk" ELSE "read"]
        /\ UNCHANGED <<written, dropped, nNoop, stopped, errored, polls>>

\* drain one chunk, compute its peak, send Level (audio.rs:175-186).
WorkerSendLevel(w) ==
    LET c == SubSeq(acc[w], 1, ASR_CHUNK_SIZE)
    IN  /\ wpc[w] = "chunk"
        /\ chunk' = [chunk EXCEPT ![w] = c]
        /\ acc' = [acc EXCEPT ![w] = SubSeq(acc[w], ASR_CHUNK_SIZE + 1, Len(acc[w]))]
        /\ chan' = Append(chan, LevelPkt("worker", w, PeakLevel(c)))
        /\ wpc' = [wpc EXCEPT ![w] = "samples"]

\* send Samples(chunk), then test the while condition again (audio.rs:188,175).
WorkerSendSamples(w) ==
    /\ wpc[w] = "samples"
    /\ chan' = Append(chan, SamplesPkt("worker", w, chunk[w]))
    /\ chunk' = [chunk EXCEPT ![w] = <<>>]
    /\ wpc' = [wpc EXCEPT ![w] = IF ChunkReady(acc[w]) THEN "chunk" ELSE "read"]
    /\ UNCHANGED acc

WorkerRead ==
    /\ \E w \in Sessions : WorkerReadPassthrough(w) \/ WorkerReadResample(w)
    /\ UNCHANGED <<cmdQ, stream, openStreams, nBuilt, srcRate, chunk, chan>>
    /\ UNCHANGED <<appVars, dispVars, regVars>>

WorkerEmit ==
    /\ \E w \in Sessions : WorkerSendLevel(w) \/ WorkerSendSamples(w)
    /\ UNCHANGED <<cmdQ, stream, openStreams, nBuilt, srcRate, ring>>
    /\ UNCHANGED <<histVars, appVars, dispVars, regVars>>

\* A pass of the loop that reads nothing: the ring buffer is empty (sleep
\* 5 ms, continue; audio.rs:143-147) or holds less than the resampler's
\* frame (audio.rs:153 false, the while at 175 not entered).  The loop has
\* no other way on: no break, no return, no stop signal.
WorkerIdlePass(w) ==
    /\ wpc[w] = "read"
    /\ IF HasResampler(w)
       THEN ~EnoughInput(Len(ring[w]), RESAMPLER_CHUNK)
       ELSE Len(ring[w]) = 0
    /\ polls' = [polls EXCEPT ![w] = 1 - @]

WorkerIdle ==
    /\ \E w \in Sessions : WorkerIdlePass(w)
    /\ UNCHANGED <<written, popped, dropped, appended, fedIn, nNoop, stopped, errored>>
    /\ UNCHANGED <<engineVars, appVars, dispVars, regVars>>

(***************************************************************************)
(* AppState::start_recording / stop_recording (state.rs:121-144).  Both    *)
(* hold the `audio` mutex from their first line to their return.           *)
(***************************************************************************)
\* rec.value = true (state.rs:126)
FlagAfterStart_Toggle(rec) == ~rec

FlagAfterStart(rec) == TRUE

StartRecording ==
    /\ callerPc = "idle"
    /\ nCmds < MaxCmds
    /\ nCmds' = nCmds + 1
    /\ cmdQ' = Append(cmdQ, "Start")
    /\ is_recording' = FlagAfterStart(is_recording)
    /\ UNCHANGED <<callerPc, callVars>>
    /\ UNCHANGED <<stream, openStreams, nBuilt, wpc, srcRate, ring, acc, chunk, chan>>
    /\ UNCHANGED <<histVars, dispVars, regVars>>

\* stop_recording up to rec.value = false (state.rs:133-137)
StopRecordingSend ==
    /\ callerPc = "idle"
    /\ nCmds < MaxCmds
    /\ nCmds' = nCmds + 1
    /\ cmdQ' = Append(cmdQ, "Stop")
    /\ is_recording' = FALSE
    /\ callerPc' = "stop_flush"
    /\ UNCHANGED callVars
    /\ UNCHANGED <<stream, openStreams, nBuilt, wpc, srcRate, ring, acc, chunk, chan>>
    /\ UNCHANGED <<histVars, dispVars, regVars>>

\* self.data_tx.send(AudioPacket::Flush) and return (state.rs:140-143)
StopRecordingFlush ==
    /\ callerPc = "stop_flush"
    /\ chan' = Append(chan, FlushPkt("caller"))
    /\ callerPc' = "idle"
    /\ UNCHANGED <<is_recording, nCmds, callVars>>
    /\ UNCHANGED <<cmdQ, stream, openStreams, nBuilt, wpc, srcRate, ring, acc, chunk>>
    /\ UNCHANGED <<histVars, dispVars, regVars>>

(***************************************************************************)
(* The same two calls statement by statement, made by several threads at   *)
(* once.  `audio` is locked on the first line of either call and the guard *)
(* is dropped when the call returns; the is_recording guard is taken       *)
(* inside it.                                                              *)
(***************************************************************************)
\* self.audio.lock() returns at once (state.rs:122,133)
AudioLockFree_Ignored == TRUE

AudioLockFree == audioHolder = NoThread

\* let audio = self.audio.lock()?
CallLock(t, op) ==
    /\ callPc[t] = "idle"
    /\ nCmds < MaxCmds
    /\ AudioLockFree
    /\ audioHolder' = t
    /\ callOp' = [callOp EXCEPT ![t] = op]
    /\ callPc' = [callPc EXCEPT ![t] = "locked"]
    /\ nCmds' = nCmds + 1
    /\ UNCHANGED <<cmdQ, chan, is_recording, cmdLog, flagLog>>

\* audio.start_capture() / audio.stop_capture(): command_tx.send (audio.rs:193-200)
CallSend(t) ==
    /\ callPc[t] = "locked"
    /\ cmdQ' = Append(cmdQ, callOp[t])
    /\ cmdLog' = Append(cmdLog, callOp[t])
    /\ callPc' = [callPc EXCEPT ![t] = "sent"]
    /\ UNCHANGED <<chan, is_recording, callOp, audioHolder, flagLog, nCmds>>

\* rec.value = true / false (state.rs:125-126,136-137)
CallSetFlag(t) ==
    /\ callPc[t] = "sent"
    /\ is_recording' = (callOp[t] = "Start")
    /\ flagLog' = Append(flagLog, callOp[t] = "Start")
    /\ callPc' = [callPc EXCEPT ![t] = IF callOp[t] = "Stop" THEN "flush" ELSE "return"]
    /\ UNCHANGED <<cmdQ, chan, callOp, audioHolder, cmdLog, nCmds>>

\* stop_recording only: self.data_tx.send(AudioPacket::Flush) (state.rs:140)
CallFlush(t) ==
    /\ callPc[t] = "flush"
    /\ chan' = Append(chan, FlushPkt("caller"))
    /\ callPc' = [callPc EXCEPT ![t] = "return"]
    /\ UNCHANGED <<cmdQ, is_recording, callOp, audioHolder, cmdLog, flagLog, nCmds>>

\* Ok(()): the guards go out of scope (state.rs:129-130,143-144)
CallReturn(t) ==
    /\ callPc[t] = "return"
    /\ audioHolder' = NoThread
    /\ callPc' = [callPc EXCEPT ![t] = "idle"]
    /\ UNCHANGED <<cmdQ, chan, is_recording, callOp, cmdLog, flagLog, nCmds>>

CallEnter ==
    /\ \E t \in CallThreads, op \in {"Start", "Stop"} : CallLock(t, op)
    /\ UNCHANGED <<stream, openStreams, nBuilt, wpc, srcRate, ring, acc, chunk, callerPc>>
    /\ UNCHANGED <<histVars, dispVars, regVars>>

CallStep ==
    /\ \E t \in CallThreads : CallSend(t) \/ CallSetFlag(t) \/ CallFlush(t) \/ CallReturn(t)
    /\ UNCHANGED <<stream, openStreams, nBuilt, wpc, srcRate, ring, acc, chunk, callerPc>>
    /\ UNCHANGED <<histVars, dispVars, regVars>>

(***************************************************************************)
(* The dispatch loop spawned by AppState::new (state.rs:50-105) and        *)
(* set_listener (state.rs:115-119).  A callback runs while the loop holds  *)
(* the listener mutex: the guard `l` lives until the end of the `if let`.  *)
(***************************************************************************)
NoListener == 0

AudioCall(to, d) == [kind |-> "audio", to |-> to, data |-> d, level |-> 0]
LevelCall(to, v) == [kind |-> "level", to |-> to, data |-> <<>>, level |-> v]

\* rx.recv() has a packet to return
CanRecv == dpc = "recv" /\ rdIdx < Len(chan)

NextPkt == chan[rdIdx + 1]

\* resample_audio(input, from_rate, to_rate) returning Ok (state.rs:147-201):
\* about len * to/from frames.  The output is represented by the input
\* frames it is centred on.
ResampleAudio(input, from_rate, to_rate) ==
    LET step == from_rate \div to_rate
        n == (Len(input) + step - 1) \div step
    IN  [i \in 1..n |-> input[(i - 1) * step + 1]]

\* processed_audio (state.rs:75-88); ok: resample_audio returned Ok.
ProcessedAudio(buf, rate, ok) ==
    IF rate # TARGET_SAMPLE_RATE
    THEN IF ok THEN ResampleAudio(buf, rate, TARGET_SAMPLE_RATE) ELSE buf
    ELSE buf

\* self.listener.lock() succeeds at once
ListenerLockFree_Ignored == TRUE

ListenerLockFree == lockHolder = "none"

\* bookkeeping common to every receive
Received == /\ rdIdx' = rdIdx + 1
            /\ seen' = Append(seen, listener)

\* sample_rate = sr (state.rs:58)
RecordedRate_Kept(old, sr) == old

RecordedRate(old, sr) == sr

\* AudioPacket::Format(sr) (state.rs:56-59)
DispatchFormat ==
    /\ CanRecv /\ NextPkt.type = "Format"
    /\ Received
    /\ sample_rate' = RecordedRate(sample_rate, NextPkt.rate)
    /\ UNCHANGED <<dpc, audio_buffer, listener, lockHolder, calls, inCall,
                   batch, staleIds, nInjected, nSets>>
    /\ UNCHANGED <<engineVars, histVars, appVars, regVars>>

\* audio_buffer.extend(data)
ExtendBuffer_Front(buf, data) == data \o buf

ExtendBuffer(buf, data) == buf \o data

\* AudioPacket::Samples(data) (state.rs:60-62)
DispatchSamples ==
    /\ CanRecv /\ NextPkt.type = "Samples"
    /\ Received
    /\ audio_buffer' = ExtendBuffer(audio_buffer, NextPkt.data)
    /\ batch' = batch \o NextPkt.data
    /\ UNCHANGED <<dpc, sample_rate, listener, lockHolder, calls, inCall,
                   staleIds, nInjected, nSets>>
    /\ UNCHANGED <<engineVars, histVars, appVars, regVars>>

\* The Level arm forwards whenever the slot holds a listener (state.rs:64-65).
LevelForwarded_OnlyIdle == listener # NoListener /\ audio_buffer = <<>>

LevelForwarded == listener # NoListener

\* AudioPacket::Level(lvl) (state.rs:63-69): lock, call on_level_changed.
DispatchLevel ==
    /\ CanRecv /\ NextPkt.type = "Level"
    /\ ListenerLockFree
    /\ Received
    /\ IF LevelForwarded
       THEN /\ calls' = Append(calls, LevelCall(listener, NextPkt.level))
            /\ inCall' = listener
            /\ lockHolder' = "dispatch"
            /\ dpc' = "level_cb"
       ELSE UNCHANGED <<calls, inCall, lockHolder, dpc>>
    /\ UNCHANGED <<audio_buffer, sample_rate, listener, batch, staleIds,
                   nInjected, nSets>>
    /\ UNCHANGED <<engineVars, histVars, appVars, regVars>>

\* The buffer after a Flush that found no listener (state.rs:96,100).
BufferAfterDrop_Kept(buf) == buf

BufferAfterDrop(buf) == <<>>

\* AudioPacket::Flush (state.rs:70-102) up to the start of on_audio_data,
\* or to audio_buffer.clear() when nothing is dispatched.
DispatchFlush ==
    /\ CanRecv /\ NextPkt.type = "Flush"
    /\ ListenerLockFree
    /\ Received
    /\ batch' = <<>>
    /\ IF audio_buffer # <<>>
       THEN \E ok \in BOOLEAN :
              IF listener # NoListener
              THEN /\ calls' = Append(calls,
                          AudioCall(listener, ProcessedAudio(audio_buffer, sample_rate, ok)))
                   /\ inCall' = listener
                   /\ lockHolder' = "dispatch"
                   /\ dpc' = "audio_cb"
                   /\ UNCHANGED <<audio_buffer, staleIds>>
              ELSE /\ audio_buffer' = BufferAfterDrop(audio_buffer)
                   /\ staleIds' = staleIds \cup {audio_buffer[i] : i \in DOMAIN audio_buffer}
                   /\ UNCHANGED <<calls, inCall, lockHolder, dpc>>
       ELSE UNCHANGED <<audio_buffer, staleIds, calls, inCall, lockHolder, dpc>>
    /\ UNCHANGED <<sample_rate, listener, nInjected, nSets>>
    /\ UNCHANGED <<engineVars, histVars, appVars, regVars>>

\* on_level_changed returns; the guard is dropped (state.rs:66-68).
DispatchLevelReturn ==
    /\ dpc = "level_cb"
    /\ inCall' = NoListener
    /\ lockHolder' = "none"
    /\ dpc' = "recv"
    /\ UNCHANGED <<rdIdx, audio_buffer, sample_rate, listener, calls, seen,
                   batch, staleIds, nInjected, nSets>>
    /\ UNCHANGED <<engineVars, histVars, appVars, regVars>>

\* on_audio_data returns; guard dropped; audio_buffer.clear() (state.rs:94-100).
DispatchAudioReturn ==
    /\ dpc = "audio_cb"
    /\ inCall' = NoListener
    /\ lockHolder' = "none"
    /\ audio_buffer' = <<>>
    /\ dpc' = "recv"
    /\ UNCHANGED <<rdIdx, sample_rate, listener, calls, seen, batch, staleIds,
                   nInjected, nSets>>
    /\ UNCHANGED <<engineVars, histVars, appVars, regVars>>

\* AppState::set_listener (state.rs:115-119): lock, replace the slot.
\* Every call brings a listener object of its own.
SetListener ==
    /\ nSets < MaxSets
    /\ ListenerLockFree
    /\ nSets' = nSets + 1
    /\ listener' = nSets + 1
    /\ UNCHANGED <<rdIdx, dpc, audio_buffer, sample_rate, lockHolder, calls,
                   inCall, seen, batch, staleIds, nInjected>>
    /\ UNCHANGED <<engineVars, histVars, appVars, regVars>>

(***************************************************************************)
(* The streaming-forward variant of the dispatch loop.  core/src/state.rs  *)
(* implements the batch variant only; this one is modelled from the        *)
(* design (Dispatch Loop, "streaming mode"): Samples are forwarded to the  *)
(* listener's audio callback at once, nothing is accumulated, and Flush is *)
(* a no-op marker.  Format and Level are handled as in the batch variant.  *)
(***************************************************************************)
\* What the streaming loop hands to on_audio_data for one Samples packet.
StreamingForward_Merged(buf, data) == buf \o data

StreamingForward(buf, data) == data

StreamingSamples ==
    /\ CanRecv /\ NextPkt.type = "Samples"
    /\ ListenerLockFree
    /\ Received
    /\ batch' = batch \o NextPkt.data
    /\ IF listener # NoListener
       THEN /\ calls' = Append(calls,
                   AudioCall(listener, StreamingForward(batch, NextPkt.data)))
            /\ inCall' = listener
            /\ lockHolder' = "dispatch"
            /\ dpc' = "audio_cb"
       ELSE UNCHANGED <<calls, inCall, lockHolder, dpc>>
    /\ UNCHANGED <<audio_buffer, sample_rate, listener, staleIds, nInjected, nSets>>
    /\ UNCHANGED <<engineVars, histVars, appVars, regVars>>

StreamingFlush ==
    /\ CanRecv /\ NextPkt.type = "Flush"
    /\ Received
    /\ batch' = <<>>
    /\ UNCHANGED <<dpc, audio_buffer, sample_rate, listener, lockHolder, calls,
                   inCall, staleIds, nInjected, nSets>>
    /\ UNCHANGED <<engineVars, histVars, appVars, regVars>>

(***************************************************************************)
(* SpeakerRegistry and DiarizationService (diarization.rs).                *)
(* A registry is the set of its map entries; `key` is the HashMap key.     *)
(* The file is the JSON text serde_json writes, kept as its parsed tree:   *)
(* an object of members, null for None, an array of numbers for Some(vec). *)
(***************************************************************************)
SpeakerIds == {"s1", "s2"}
SpeakerNames == {"Alice", "Bob"}

\* Option<Vec<f32>>
NoEmbedding == [some |-> FALSE, vec |-> <<>>]
SomeEmbedding(v) == [some |-> TRUE, vec |-> v]

Speaker(key, id, name, emb) == [key |-> key, id |-> id, name |-> name, embedding |-> emb]

HasSpeaker(reg, id) == \E sp \in reg : sp.key = id
SpeakerOf(reg, id) == CHOOSE sp \in reg : sp.key = id

\* SpeakerRegistry::add_speaker (diarization.rs:35-46)
AddSpeaker_Replace(reg, id, name) ==
    {sp \in reg : sp.key # id} \cup {Speaker(id, id, name, NoEmbedding)}

AddSpeaker(reg, id, name) ==
    IF HasSpeaker(reg, id)
    THEN {IF sp.key = id THEN [sp EXCEPT !.name = name] ELSE sp : sp \in reg}
    ELSE reg \cup {Speaker(id, id, name, NoEmbedding)}

\* DiarizationService::get_speaker_name (diarization.rs:104-109) over
\* SpeakerRegistry::get_speaker_name (diarization.rs:48-50)
GetSpeakerName(reg, id) ==
    IF HasSpeaker(reg, id) THEN SpeakerOf(reg, id).name ELSE id

\* JSON values
JsonNull == [t |-> "null", n |-> 0, items |-> <<>>]
JsonNumber(x) == [t |-> "number", n |-> x, items |-> <<>>]
JsonArray(xs) == [t |-> "array", n |-> 0, items |-> xs]

\* Serialize for Option<Vec<f32>>: null, or an array of numbers
EncodeEmbedding(e) ==
    IF e.some THEN JsonArray([i \in DOMAIN e.vec |-> JsonNumber(e.vec[i])]) ELSE JsonNull

\* Deserialize for Option<Vec<f32>> accepts null or an array of numbers
EmbeddingParses(j) ==
    \/ j.t = "null"
    \/ j.t = "array" /\ \A i \in DOMAIN j.items : j.items[i].t = "number"

DecodeEmbedding(j) ==
    IF j.t = "null" THEN NoEmbedding
    ELSE SomeEmbedding([i \in DOMAIN j.items |-> j.items[i].n])

AbsentFile == [kind |-> "absent", members |-> {}]
GarbageFile == [kind |-> "garbage", members |-> {}]
JsonFile(ms) == [kind |-> "json", members |-> ms]

JsonMember(sp) ==
    [key |-> sp.key, id |-> sp.id, name |-> sp.name, embedding |-> EncodeEmbedding(sp.embedding)]

\* SpeakerRegistry::to_json (diarization.rs:59-61)
ToJson_NamesLost(reg) == JsonFile({JsonMember([sp EXCEPT !.name = sp.id]) : sp \in reg})

ToJson(reg) == JsonFile({JsonMember(sp) : sp \in reg})

\* SpeakerRegistry::from_json (diarization.rs:63-65): a text that does not
\* parse as a registry gives Self::new().
FromJson(text) ==
    IF text.kind = "json" /\ \A m \in text.members : EmbeddingParses(m.embedding)
    THEN {Speaker(m.key, m.id, m.name, DecodeEmbedding(m.embedding)) : m \in text.members}
    ELSE {}

\* The registry DiarizationService::new builds from storage_path
\* (diarization.rs:75-88).
LoadRegistry(f) == IF f.kind = "absent" THEN {} ELSE FromJson(f)

\* No register_speaker call made yet by a caller.
NoCall == [id |-> "", name |-> "", snap |-> {}]

\* register_speaker, first half: lock, add_speaker, unlock (diarization.rs:98-100)
RegisterAdd ==
    /\ nRegs < MaxRegs
    /\ \E t \in RegThreads, id \in SpeakerIds, name \in SpeakerNames :
          /\ rpc[t] = "idle"
          /\ registry' = AddSpeaker(registry, id, name)
          /\ rpc' = [rpc EXCEPT ![t] = "save"]
          /\ addLog' = Append(addLog, [id |-> id, name |-> name])
          /\ regCall' = [regCall EXCEPT
                            ![t] = [id |-> id, name |-> name,
                                    snap |-> AddSpeaker(registry, id, name)]]
    /\ nRegs' = nRegs + 1
    /\ reloaded' = [done |-> FALSE, reg |-> {}]
    /\ UNCHANGED <<file, loadedReg>>
    /\ UNCHANGED <<engineVars, histVars, appVars, dispVars>>

\* What save() writes (diarization.rs:91-93): the registry as it is when
\* save() holds the lock, not as the caller's own add_speaker left it (snap).
SaveContent_Stale(reg, snap) == ToJson(snap)

SaveContent(reg, snap) == ToJson(reg)

\* register_speaker, second half: save() locks, serializes and writes the
\* file (diarization.rs:90-95,101); the write succeeds.
RegisterSave ==
    /\ \E t \in RegThreads :
          /\ rpc[t] = "save"
          /\ rpc' = [rpc EXCEPT ![t] = "idle"]
          /\ file' = SaveContent(registry, regCall[t].snap)
    /\ UNCHANGED <<registry, reloaded, nRegs, loadedReg, addLog, regCall>>
    /\ UNCHANGED <<engineVars, histVars, appVars, dispVars>>

\* A second DiarizationService::new(storage_path), made when every
\* register_speaker call has returned.
Reload ==
    /\ \A t \in RegThreads : rpc[t] = "idle"
    /\ ~reloaded.done
    /\ reloaded' = [done |-> TRUE, reg |-> LoadRegistry(file)]
    /\ UNCHANGED <<registry, file, rpc, nRegs, loadedReg, addLog, regCall>>
    /\ UNCHANGED <<engineVars, histVars, appVars, dispVars>>

(***************************************************************************)
(* Specifications.                                                         *)
(***************************************************************************)
InitEngine ==
    /\ cmdQ = <<>>
    /\ stream = NoStream
    /\ openStreams = {}
    /\ nBuilt = 0
    /\ wpc = [w \in Sessions |-> "none"]
    /\ srcRate = [w \in Sessions |-> TARGET_SAMPLE_RATE]
    /\ ring = [w \in Sessions |-> <<>>]
    /\ acc = [w \in Sessions |-> <<>>]
    /\ chunk = [w \in Sessions |-> <<>>]
    /\ chan = <<>>
    /\ written = [w \in Sessions |-> <<>>]
    /\ popped = [w \in Sessions |-> <<>>]
    /\ dropped = [w \in Sessions |-> 0]
    /\ appended = [w \in Sessions |-> <<>>]
    /\ fedIn = [w \in Sessions |-> <<>>]
    /\ nNoop = 0
    /\ stopped = {}
    /\ errored = {}
    /\ polls = [w \in Sessions |-> 0]

InitCalls ==
    /\ callPc = [t \in CallThreads |-> "idle"]
    /\ callOp = [t \in CallThreads |-> "Start"]
    /\ audioHolder = NoThread
    /\ cmdLog = <<>>
    /\ flagLog = <<>>

InitApp ==
    /\ is_recording = FALSE
    /\ callerPc = "idle"
    /\ nCmds = 0
    /\ InitCalls

InitDispatch ==
    /\ rdIdx = 0
    /\ dpc = "recv"
    /\ audio_buffer = <<>>
    /\ sample_rate = INITIAL_SAMPLE_RATE
    /\ listener = NoListener
    /\ lockHolder = "none"
    /\ calls = <<>>
    /\ inCall = NoListener
    /\ seen = <<>>
    /\ batch = <<>>
    /\ staleIds = {}
    /\ nInjected = 0
    /\ nSets = 0

InitRegistryIdle ==
    /\ registry = {}
    /\ file = AbsentFile
    /\ reloaded = [done |-> FALSE, reg |-> {}]
    /\ rpc = [t \in RegThreads |-> "idle"]
    /\ nRegs = 0
    /\ loadedReg = registry
    /\ addLog = <<>>
    /\ regCall = [t \in RegThreads |-> NoCall]

(* The capture side of the program: the callers of start_recording and     *)
(* stop_recording, the command thread, the device and the workers.  The    *)
(* packet channel keeps every packet sent.                                 *)
Init == InitEngine /\ InitApp /\ InitDispatch /\ InitRegistryIdle

Next ==
    \/ StartRecording
    \/ StopRecordingSend
    \/ StopRecordingFlush
    \/ CtrlStartHeld
    \/ CtrlStartNoDevice
    \/ CtrlStartStreamFails
    \/ CtrlStartOk
    \/ CtrlStop
    \/ AudioCallback
    \/ WorkerRead
    \/ WorkerEmit

Spec == Init /\ [][Next]_vars

(* One capture session in isolation: Start has been processed, the stream  *)
(* plays, and the device callback and the worker run.                      *)
AudioCallbackW == AudioCallbackUpTo(MaxWorkerSamples)

InitWorker ==
    /\ \E rate \in DeviceRates :
          /\ srcRate = [w \in Sessions |-> IF w = 1 THEN rate ELSE TARGET_SAMPLE_RATE]
    /\ cmdQ = <<>>
    /\ stream = 1
    /\ openStreams = {1}
    /\ nBuilt = 1
    /\ wpc = [w \in Sessions |-> IF w = 1 THEN "read" ELSE "none"]
    /\ ring = [w \in Sessions |-> <<>>]
    /\ acc = [w \in Sessions |-> <<>>]
    /\ chunk = [w \in Sessions |-> <<>>]
    /\ chan = <<FormatPkt("ctrl", 1, TARGET_SAMPLE_RATE)>>
    /\ written = [w \in Sessions |-> <<>>]
    /\ popped = [w \in Sessions |-> <<>>]
    /\ dropped = [w \in Sessions |-> 0]
    /\ appended = [w \in Sessions |-> <<>>]
    /\ fedIn = [w \in Sessions |-> <<>>]
    /\ nNoop = 0
    /\ stopped = {}
    /\ errored = {}
    /\ polls = [w \in Sessions |-> 0]
    /\ is_recording = TRUE
    /\ callerPc = "idle"
    /\ nCmds = 1
    /\ InitCalls
    /\ InitDispatch
    /\ InitRegistryIdle

NextWorker ==
    \/ AudioCallbackW
    \/ WorkerRead
    \/ WorkerEmit

SpecWorker == InitWorker /\ [][NextWorker]_vars

(* The dispatch loop in isolation: any packets arrive on the channel, in   *)
(* any order, while set_listener is called from another thread.            *)
RECURSIVE SamplesOn(_)
SamplesOn(ch) ==
    IF ch = <<>> THEN <<>>
    ELSE (IF Head(ch).type = "Samples" THEN Head(ch).data ELSE <<>>) \o SamplesOn(Tail(ch))

InjectFormat ==
    /\ nInjected < MaxPackets
    /\ nInjected' = nInjected + 1
    /\ \E r \in DeviceRates : chan' = Append(chan, FormatPkt("env", 0, r))

InjectSamples ==
    /\ nInjected < MaxPackets
    /\ nInjected' = nInjected + 1
    /\ \E n \in 1..2 :
          LET k == Len(SamplesOn(chan))
          IN  chan' = Append(chan, SamplesPkt("env", 0, [i \in 1..n |-> Sample(1, k + i)]))

InjectLevel ==
    /\ nInjected < MaxPackets
    /\ nInjected' = nInjected + 1
    /\ chan' = Append(chan, LevelPkt("env", 0, nInjected + 1))

InjectFlush ==
    /\ nInjected < MaxPackets
    /\ nInjected' = nInjected + 1
    /\ chan' = Append(chan, FlushPkt("env"))

Inject ==
    /\ InjectFormat \/ InjectSamples \/ InjectLevel \/ InjectFlush
    /\ UNCHANGED <<rdIdx, dpc, audio_buffer, sample_rate, listener, lockHolder,
                   calls, inCall, seen, batch, staleIds, nSets>>
    /\ UNCHANGED <<cmdQ, stream, openStreams, nBuilt, wpc, srcRate, ring, acc, chunk>>
    /\ UNCHANGED <<histVars, appVars, regVars>>

NextDispatch ==
    \/ Inject
    \/ SetListener
    \/ DispatchFormat
    \/ DispatchSamples
    \/ DispatchLevel
    \/ DispatchFlush
    \/ DispatchLevelReturn
    \/ DispatchAudioReturn

SpecDispatch == Init /\ [][NextDispatch]_vars

(* The streaming variant of the dispatch loop in isolation.                *)
NextStreaming ==
    \/ Inject
    \/ SetListener
    \/ DispatchFormat
    \/ StreamingSamples
    \/ DispatchLevel
    \/ StreamingFlush
    \/ DispatchLevelReturn
    \/ DispatchAudioReturn

SpecStreaming == Init /\ [][NextStreaming]_vars

(* The speaker registry in isolation.  The file at storage_path is absent, *)
(* unparsable, or a registry file: per id no entry, or an entry with any   *)
(* name and with no embedding or a one-value embedding.                    *)
StoredEntries(id) ==
    {{}} \cup {{Speaker(id, id, name, emb)} :
                  name \in SpeakerNames, emb \in {NoEmbedding, SomeEmbedding(<<1>>)}}

InitialFiles ==
    {AbsentFile, GarbageFile}
        \cup {JsonFile({JsonMember(sp) : sp \in a \cup b}) :
                 a \in StoredEntries("s1"), b \in StoredEntries("s2")}

InitRegistry ==
    /\ InitEngine /\ InitApp /\ InitDispatch
    /\ file \in InitialFiles
    /\ registry = LoadRegistry(file)
    /\ reloaded = [done |-> FALSE, reg |-> {}]
    /\ rpc = [t \in RegThreads |-> "idle"]
    /\ nRegs = 0
    /\ loadedReg = registry
    /\ addLog = <<>>
    /\ regCall = [t \in RegThreads |-> NoCall]

NextRegistry ==
    \/ RegisterAdd
    \/ RegisterSave
    \/ Reload

SpecRegistry == InitRegistry /\ [][NextRegistry]_vars

(***************************************************************************)
(* Properties.                                                             *)
(***************************************************************************)
RECURSIVE IsSubseq(_, _)
IsSubseq(a, b) ==
    IF a = <<>> THEN TRUE
    ELSE IF b = <<>> THEN FALSE
    ELSE IF Head(a) = Head(b) THEN IsSubseq(Tail(a), Tail(b))
    ELSE IsSubseq(a, Tail(b))

\* The peak absolute amplitude of a chunk, stated directly.
PeakLevel_Spec(c) ==
    IF c = <<>> THEN 0
    ELSE CHOOSE m \in {Abs(c[i]) : i \in DOMAIN c} : \A i \in DOMAIN c : Abs(c[i]) <= m

\* The indices of the packets worker w put on the channel.
WorkerPkts(w) == {i \in DOMAIN chan : chan[i].src = "worker" /\ chan[i].sess = w}

\* The Samples packets of worker w, in channel order.
RECURSIVE SamplesOfWorker(_, _)
SamplesOfWorker(ch, w) ==
    IF ch = <<>> THEN <<>>
    ELSE (IF Head(ch).type = "Samples" /\ Head(ch).src = "worker" /\ Head(ch).sess = w
          THEN <<Head(ch).data>> ELSE <<>>) \o SamplesOfWorker(Tail(ch), w)

\* The command thread consumes a Start while it holds a stream.
StartWhileHeldStep ==
    /\ cmdQ # <<>> /\ Head(cmdQ) = "Start"
    /\ stream # NoStream
    /\ cmdQ' = Tail(cmdQ)

(* C1: at most one device stream exists at any time, and a Start processed *)
(* while a stream is held changes nothing but the command queue: no        *)
(* stream, ring buffer or worker is built and no packet is sent.           *)
C1_OneStreamStartIsNoop ==
    /\ [](Cardinality(openStreams) <= 1 /\ openStreams = {stream} \ {NoStream})
    /\ [][StartWhileHeldStep =>
            UNCHANGED <<stream, openStreams, nBuilt, wpc, srcRate, ring, acc, chunk, chan>>]_vars

\* A Start has been consumed as a no-op and the first stream is still held.
C1_Witness == nNoop >= 1 /\ stream = 1 /\ nBuilt = 1 /\ Len(chan) = 1

(* C3: every Samples(chunk) packet of a worker is preceded on the channel  *)
(* by the Level packet holding that chunk's peak amplitude, sent by the    *)
(* same worker, with no other packet of that worker between the two.       *)
C3_LevelBeforeSamples ==
    \A i \in DOMAIN chan :
        (chan[i].type = "Samples" /\ chan[i].src = "worker") =>
            \E j \in 1..(i - 1) :
                /\ chan[j] = LevelPkt("worker", chan[i].sess, PeakLevel_Spec(chan[i].data))
                /\ \A k \in (j + 1)..(i - 1) : k \notin WorkerPkts(chan[i].sess)

\* A worker's Samples packet whose Level is separated from it by a packet
\* of another thread, after an earlier chunk of a negative peak sample.
C3_Witness ==
    \E i \in DOMAIN chan :
        /\ chan[i].type = "Samples" /\ chan[i].src = "worker"
        /\ i > 2 /\ chan[i - 1].type = "Flush" /\ chan[i - 2].type = "Level"
        /\ \E k \in DOMAIN chan[i].data :
              chan[i].data[k] < 0 /\ chan[i - 2].level = -chan[i].data[k]

(* C4: when worker w is at the top of its loop and N samples have been     *)
(* appended to accumulated_samples, it has sent exactly N div CHUNK        *)
(* Samples packets, each of exactly CHUNK samples, which concatenated are  *)
(* the first CHUNK * (N div CHUNK) appended samples; the other N mod CHUNK *)
(* samples are in accumulated_samples.  At every moment the packets sent,  *)
(* the chunk in hand and the buffer make up the appended samples in order. *)
C4_Chunking ==
    \A w \in Sessions :
        LET sent == SamplesOfWorker(chan, w)
            N == Len(appended[w])
        IN  /\ \A i \in DOMAIN sent : Len(sent[i]) = ASR_CHUNK_SIZE
            /\ Flatten(sent) \o chunk[w] \o acc[w] = appended[w]
            /\ wpc[w] = "read" =>
                  /\ Len(sent) = N \div ASR_CHUNK_SIZE
                  /\ Len(acc[w]) = N % ASR_CHUNK_SIZE
                  /\ chunk[w] = <<>>

\* Two chunks sent and a remainder left, after reads of different sizes.
C4_Witness ==
    /\ wpc[1] = "read"
    /\ Len(SamplesOfWorker(chan, 1)) >= 2
    /\ acc[1] # <<>>
    /\ Len(appended[1]) % ASR_CHUNK_SIZE # 0

(* C5: the ring buffer never holds more than its capacity; the callback's  *)
(* push is always possible; a push drops samples only when it leaves the   *)
(* buffer full, and those are the trailing samples of the slice pushed     *)
(* (what is buffered stays, the leading samples of the slice follow it);   *)
(* what has been popped, followed by what is buffered, is a                *)
(* subsequence of what was written, in write order; and written = popped + *)
(* buffered + dropped, so read + dropped = written when the buffer is      *)
(* empty.                                                                  *)
C5_RingInv ==
    \A w \in Sessions :
        /\ Len(ring[w]) <= RING_BUFFER_SIZE
        /\ IsSubseq(popped[w] \o ring[w], written[w])
        /\ Len(popped[w]) + Len(ring[w]) + dropped[w] = Len(written[w])
        /\ ring[w] = <<>> => Len(popped[w]) + dropped[w] = Len(written[w])

C5_RingBuffer ==
    /\ []C5_RingInv
    /\ []((openStreams # {} /\ \E w \in openStreams : Len(written[w]) < MaxWorkerSamples)
             => ENABLED AudioCallbackW)
    /\ [][\A w \in Sessions :
            dropped'[w] > dropped[w] =>
                /\ Len(ring'[w]) = RING_BUFFER_SIZE
                /\ dropped'[w] - dropped[w]
                      = Len(ring[w]) + (Len(written'[w]) - Len(written[w])) - RING_BUFFER_SIZE
         ]_vars
    /\ [][\A w \in Sessions :
            written'[w] # written[w] =>
                LET new == SubSeq(written'[w], Len(written[w]) + 1, Len(written'[w]))
                IN  /\ Len(ring'[w]) >= Len(ring[w])
                    /\ ring'[w] = ring[w] \o SubSeq(new, 1, Len(ring'[w]) - Len(ring[w]))
         ]_vars

\* Samples were dropped by a push on a full buffer, and the consumer has
\* since emptied the buffer.
C5_Witness ==
    /\ dropped[1] > 0
    /\ ring[1] = <<>>
    /\ Len(popped[1]) >= RING_BUFFER_SIZE

\* The dispatch loop receives its next packet, of the given type.
RecvStep(type) == CanRecv /\ NextPkt.type = type /\ rdIdx' = rdIdx + 1

AudioCallsOf(cs) == SelectSeq(cs, LAMBDA c : c.kind = "audio")
LevelCallsOf(cs) == SelectSeq(cs, LAMBDA c : c.kind = "level")

(* C2: in the batch loop no step other than receiving a Flush starts an    *)
(* on_audio_data call, and receiving a Flush with a listener registered,   *)
(* the recorded rate 16000 and Samples p1..pN (N >= 1) received since the  *)
(* previous Flush starts exactly one on_audio_data call, whose argument is *)
(* p1 ++ ... ++ pN in arrival order.                                       *)
C2_BatchDelivery ==
    /\ [][(/\ RecvStep("Flush")
           /\ listener # NoListener
           /\ sample_rate = TARGET_SAMPLE_RATE
           /\ batch # <<>>)
            => calls' = Append(calls, AudioCall(listener, batch))]_vars
    /\ [][~RecvStep("Flush") => AudioCallsOf(calls') = AudioCallsOf(calls)]_vars

\* on_audio_data is running with the concatenation of at least two Samples
\* packets, delivered unresampled at rate 16000.
C2_Witness ==
    /\ dpc = "audio_cb"
    /\ sample_rate = TARGET_SAMPLE_RATE
    /\ Len(calls[Len(calls)].data) >= 3
    /\ \E i \in 1..(rdIdx - 1) :
          chan[i].type = "Samples" /\ chan[i + 1].type = "Samples"

(* C6: receiving a Flush with a non-empty buffer and no listener starts no *)
(* callback, leaves the loop ready for the next packet and the buffer      *)
(* empty; no sample cleared that way is ever handed to a listener.         *)
C6_FlushWithoutListener ==
    /\ [][(RecvStep("Flush") /\ listener = NoListener /\ audio_buffer # <<>>)
            => /\ calls' = calls
               /\ audio_buffer' = <<>>
               /\ dpc' = "recv" /\ inCall' = NoListener /\ lockHolder' = "none"]_vars
    /\ [](\A i \in DOMAIN calls :
            \A k \in DOMAIN calls[i].data : calls[i].data[k] \notin staleIds)

\* A batch was dropped for want of a listener, and a listener registered
\* later is being handed the samples that arrived after it.
C6_Witness ==
    /\ staleIds # {}
    /\ dpc = "audio_cb"
    /\ \A x \in staleIds : Abs(calls[Len(calls)].data[1]) > Abs(x)

C8_LevelForwarding ==
    /\ [][RecvStep("Level")
            => IF listener # NoListener
               THEN calls' = Append(calls, LevelCall(listener, NextPkt.level))
               ELSE calls' = calls]_vars
    /\ [][rdIdx' # rdIdx => inCall = NoListener]_vars
    /\ [](LET got == {i \in 1..rdIdx : chan[i].type = "Level" /\ seen[i] # NoListener}
          IN  /\ Len(LevelCallsOf(calls)) = Cardinality(got)
              /\ \A i \in got :
                    LevelCallsOf(calls)[Cardinality({j \in got : j <= i})]
                        = LevelCall(seen[i], chan[i].level))

\* on_level_changed is running while the accumulation buffer is non-empty,
\* and an earlier Level was received with no listener registered.
C8_Witness ==
    /\ dpc = "level_cb"
    /\ audio_buffer # <<>>
    /\ \E i \in 1..rdIdx : chan[i].type = "Level" /\ seen[i] = NoListener

(* C9: a callback is only ever started on the listener the slot holds,     *)
(* which is the one given to the latest set_listener; while a callback     *)
(* runs the slot does not change, so set_listener completes only when no   *)
(* callback is in progress.                                                *)
C9_ListenerReplace ==
    /\ [](/\ listener = nSets
          /\ inCall # NoListener => (inCall = listener /\ lockHolder = "dispatch"))
    /\ [][calls' # calls
            => /\ Len(calls') = Len(calls) + 1
               /\ SubSeq(calls', 1, Len(calls)) = calls
               /\ listener # NoListener
               /\ calls'[Len(calls')].to = listener
               /\ listener' = listener]_vars
    /\ [][listener' # listener => (inCall = NoListener /\ inCall' = NoListener)]_vars

\* The listener was replaced between two callbacks: the first listener was
\* called, then the second, and a call on the second is in progress.
C9_Witness ==
    /\ inCall = 2
    /\ \E i \in DOMAIN calls : calls[i].to = 1

(* C10: a DiarizationService built from the storage path after any         *)
(* register_speaker calls have returned (their writes having succeeded)    *)
(* gives, for every id, known or not, the same get_speaker_name result as  *)
(* the service that made the calls.                                        *)
C10_RegistryRoundTrip ==
    reloaded.done =>
        \A id \in SpeakerIds \cup {"unknown-id"} :
            GetSpeakerName(reloaded.reg, id) = GetSpeakerName(registry, id)

\* Two calls from two threads, one renaming a speaker the file already
\* held with an embedding, and the reloaded service knows the new names.
C10_Witness ==
    /\ reloaded.done
    /\ nRegs = 2
    /\ \E sp \in reloaded.reg : sp.embedding.some /\ sp.name = "Bob"
    /\ \E sp \in reloaded.reg : ~sp.embedding.some /\ sp.name = "Alice"

\* Whether add_speaker was called for id, and the name its latest call gave.
Added(log, id) == \E i \in DOMAIN log : log[i].id = id

LastName(log, id) ==
    log[CHOOSE i \in DOMAIN log :
            log[i].id = id /\ \A j \in DOMAIN log : log[j].id = id => j <= i].name

\* The record the registry holds for id, as a set (empty when it holds none).
RecordsOf(reg, id) == {sp \in reg : sp.key = id}

(* C11: after any add_speaker calls, get_speaker_name(id) is the name of   *)
(* the latest add_speaker for id; with no add_speaker for id it is what    *)
(* the registry was constructed with, which is id itself when the registry *)
(* was constructed without a record for id (so on an empty registry).  The *)
(* registry holds at most one record per id, whose embedding is the one it *)
(* was constructed with (none for a record add_speaker created).  An       *)
(* add_speaker changes the record of its id only, and only its name.       *)
C11_AddGetSpeaker ==
    /\ [](\A id \in SpeakerIds \cup {"unknown-id"} :
            /\ GetSpeakerName(registry, id)
                  = IF Added(addLog, id) THEN LastName(addLog, id)
                    ELSE IF HasSpeaker(loadedReg, id) THEN SpeakerOf(loadedReg, id).name
                    ELSE id
            /\ Cardinality(RecordsOf(registry, id)) <= 1
            /\ \A sp \in RecordsOf(registry, id) :
                  /\ sp.id = id
                  /\ sp.embedding = IF HasSpeaker(loadedReg, id)
                                    THEN SpeakerOf(loadedReg, id).embedding
                                    ELSE NoEmbedding)
    /\ [][addLog' # addLog =>
            LET e == addLog'[Len(addLog')]
            IN  /\ \A id \in SpeakerIds \ {e.id} :
                      RecordsOf(registry', id) = RecordsOf(registry, id)
                /\ \A old \in RecordsOf(registry, e.id) :
                      RecordsOf(registry', e.id) = {[old EXCEPT !.name = e.name]}
                /\ RecordsOf(registry, e.id) = {} =>
                      RecordsOf(registry', e.id) = {Speaker(e.id, e.id, e.name, NoEmbedding)}
         ]_vars

\* A speaker loaded with an embedding was renamed twice; the other id was
\* never added and is echoed back.
C11_Witness ==
    /\ addLog = <<[id |-> "s1", name |-> "Bob"], [id |-> "s1", name |-> "Alice"]>>
    /\ \E sp \in loadedReg : sp.key = "s1" /\ sp.embedding.some
    /\ GetSpeakerName(registry, "s1") = "Alice"
    /\ GetSpeakerName(registry, "s2") = "s2"

(* C18: every register_speaker returns on a file write made from the       *)
(* registry as it is then, which holds the caller's id with the name of    *)
(* the latest add_speaker for that id (its own or a later one); and when   *)
(* every call has returned the file is the serialization of the in-memory  *)
(* registry, for every interleaving of the callers.                        *)
C18_WriteThrough ==
    /\ [][\A t \in RegThreads :
            (rpc[t] = "save" /\ rpc'[t] = "idle") =>
                /\ HasSpeaker(LoadRegistry(file'), regCall[t].id)
                /\ GetSpeakerName(LoadRegistry(file'), regCall[t].id)
                      = LastName(addLog, regCall[t].id)
         ]_vars
    /\ []((nRegs > 0 /\ \A t \in RegThreads : rpc[t] = "idle")
             => /\ file = ToJson(registry)
                /\ \A id \in SpeakerIds :
                      Added(addLog, id) =>
                          GetSpeakerName(LoadRegistry(file), id) = LastName(addLog, id))

\* Two callers gave the same id different names; the caller whose add came
\* first saved last, and both have returned.
C18_Witness ==
    /\ \A t \in RegThreads : rpc[t] = "idle"
    /\ regCall[1].id = "s1" /\ regCall[2].id = "s1"
    /\ regCall[1].name = "Alice" /\ regCall[2].name = "Bob"
    /\ addLog = <<[id |-> "s1", name |-> "Alice"], [id |-> "s1", name |-> "Bob"]>>
    /\ regCall[1].snap # registry
    /\ file = ToJson(registry)

(* C19: a worker with a resampler pops from the ring buffer only when at   *)
(* least the resampler's input-frame count is buffered; it then pops       *)
(* exactly that many samples, the oldest ones in order, and hands exactly  *)
(* them to the resampler as one frame, so the frames fed, concatenated,    *)
(* are the samples popped; with fewer samples buffered it pops nothing.    *)
C19_ExactFrames ==
    /\ [](\A w \in Sessions :
            HasResampler(w) =>
                /\ \A i \in DOMAIN fedIn[w] : Len(fedIn[w][i]) = RESAMPLER_CHUNK
                /\ Flatten(fedIn[w]) = popped[w])
    /\ [][\A w \in Sessions :
            (HasResampler(w) /\ (popped'[w] # popped[w] \/ fedIn'[w] # fedIn[w])) =>
                /\ Len(ring[w]) >= RESAMPLER_CHUNK
                /\ popped'[w] = popped[w] \o SubSeq(ring[w], 1, RESAMPLER_CHUNK)
                /\ fedIn'[w] = Append(fedIn[w], SubSeq(ring[w], 1, RESAMPLER_CHUNK))
                /\ ring'[w] = SubSeq(ring[w], RESAMPLER_CHUNK + 1, Len(ring[w]))
         ]_vars
    /\ [][\A w \in Sessions :
            (HasResampler(w) /\ wpc[w] = "read" /\ Len(ring[w]) < RESAMPLER_CHUNK) =>
                (popped'[w] = popped[w] /\ Len(ring'[w]) >= Len(ring[w]) /\ wpc'[w] = "read")
         ]_vars

\* A resampling worker has been fed two frames and waits at the top of its
\* loop on a ring buffer that holds samples, but less than one frame.
C19_Witness ==
    /\ HasResampler(1)
    /\ wpc[1] = "read"
    /\ Len(fedIn[1]) >= 2
    /\ ring[1] # <<>> /\ Len(ring[1]) < RESAMPLER_CHUNK

\* The command thread consumes a Start and keeps the stream it built.
StartOkStep == stream = NoStream /\ stream' # NoStream

\* The Format packets on the channel that announce session w.
FormatsOf(w) == {i \in DOMAIN chan : chan[i].type = "Format" /\ chan[i].sess = w}

(* C12 as stated: the Format packet of a built stream carries the device's *)
(* native sample rate.                                                     *)
C12_FormatCarriesNativeRate ==
    \A w \in Sessions : \A i \in FormatsOf(w) : chan[i].rate = srcRate[w]

(* C12, amended: a successful stream build puts exactly one Format packet  *)
(* on the channel, and the rate it carries is 16000, the rate the worker   *)
(* brings the samples to, whatever the device's native rate.               *)
C12_FormatCarriesTargetRate ==
    /\ [][StartOkStep =>
            chan' = Append(chan, FormatPkt("ctrl", stream', TARGET_SAMPLE_RATE))]_vars
    /\ [](\A w \in Sessions :
            (w \in openStreams \/ w \in stopped) =>
                /\ Cardinality(FormatsOf(w)) = 1
                /\ \A i \in FormatsOf(w) : chan[i].rate = TARGET_SAMPLE_RATE)

\* A stream of a 48000 Hz device is held, after an earlier session of a
\* 16000 Hz device; each has its one Format packet.
C12_Witness ==
    /\ stream = 2 /\ srcRate[2] = 48000 /\ srcRate[1] = TARGET_SAMPLE_RATE
    /\ 1 \in stopped
    /\ Cardinality(FormatsOf(2)) = 1

\* A worker thread that is running its loop.
WorkerLive(w) == wpc[w] \in {"read", "chunk", "samples"}

LiveWorkers == {w \in Sessions : WorkerLive(w)}

(* C14: once the command thread has handled the Stop that ends session w   *)
(* (its Flush is on the channel), the worker of session w puts no further  *)
(* Level or Samples packet on the channel.                                 *)
C14_NoAudioAfterFlush ==
    [][\A w \in stopped : WorkerPkts(w)' = WorkerPkts(w)]_vars

\* The command thread consumes a Start and ends up holding no stream.
FailedStartStep ==
    /\ cmdQ # <<>> /\ Head(cmdQ) = "Start"
    /\ stream = NoStream
    /\ cmdQ' = Tail(cmdQ)
    /\ stream' = NoStream

(* C16: a Start whose construction fails begins no session: no stream is   *)
(* retained, no worker thread is left running and no Format packet has     *)
(* been put on the channel.                                                *)
C16_FailedStartLeavesNothing ==
    [][FailedStartStep =>
          /\ openStreams' = openStreams
          /\ LiveWorkers' = LiveWorkers
          /\ chan' = chan]_vars

(* The capture side under fair scheduling, with the workers' empty passes  *)
(* made visible: the command thread handles a command that waits in its    *)
(* queue, and a worker keeps running its loop.  The callers and the device *)
(* are not obliged to do anything.                                         *)
CommandThread ==
    \/ CtrlStartHeld
    \/ CtrlStartNoDevice
    \/ CtrlStartStreamFails
    \/ CtrlStartOk
    \/ CtrlStop

NextLive ==
    \/ Next
    \/ WorkerIdle

SpecLive ==
    /\ Init
    /\ [][NextLive]_vars
    /\ WF_vars(CommandThread)
    /\ WF_vars(WorkerRead)
    /\ WF_vars(WorkerEmit)
    /\ WF_vars(WorkerIdle)
    /\ WF_vars(StopRecordingFlush)

(* C15: after the command thread has processed the Stop that ends session  *)
(* w, the worker thread of session w eventually terminates.                *)
C15_WorkerTerminates ==
    \A w \in Sessions : (w \in stopped) ~> ~WorkerLive(w)

(* Concurrent callers of start_recording and stop_recording, and the       *)
(* command thread consuming what they queue.                               *)
NextCallers ==
    \/ CallEnter
    \/ CallStep
    \/ CommandThread

SpecCallers == Init /\ [][NextCallers]_vars

(* C20: the calls exclude one another from lock to return, the values      *)
(* written to the recording flag follow the order in which the commands    *)
(* entered the command queue (true for Start, false for Stop), and when    *)
(* every call has returned the flag is Recording exactly if the last       *)
(* command queued is Start.                                                *)
C20_StartStopExclusive ==
    /\ Cardinality({t \in CallThreads : callPc[t] # "idle"}) <= 1
    /\ Len(flagLog) <= Len(cmdLog)
    /\ Len(cmdLog) <= Len(flagLog) + 1
    /\ \A i \in DOMAIN flagLog : flagLog[i] = (cmdLog[i] = "Start")
    /\ (cmdLog # <<>> /\ \A t \in CallThreads : callPc[t] = "idle") =>
          /\ Len(flagLog) = Len(cmdLog)
          /\ is_recording = (cmdLog[Len(cmdLog)] = "Start")

\* Both threads have made calls, a stop queued after a start and a start
\* after that; all have returned and the flag reads Recording.
C20_Witness ==
    /\ \A t \in CallThreads : callPc[t] = "idle"
    /\ cmdLog = <<"Start", "Stop", "Start">>
    /\ callOp[1] = "Stop" /\ callOp[2] = "Start"
    /\ is_recording

(* The whole program: the callers, the command thread, the device, the     *)
(* workers, the dispatch loop and set_listener, all running concurrently.  *)
StartRecordingP == nCmds < MaxPipeCmds /\ StartRecording

StopRecordingSendP == nCmds < MaxPipeCmds /\ StopRecordingSend

SetListenerP == nSets < MaxPipeSets /\ SetListener

AudioCallbackP == AudioCallbackUpTo(MaxPipeSamples)

AudioCallbackS == AudioCallbackUpTo(MaxStateSamples)

NextPipeline ==
    \/ SetListenerP
    \/ StartRecordingP
    \/ StopRecordingSendP
    \/ StopRecordingFlush
    \/ CommandThread
    \/ StreamError
    \/ AudioCallbackP
    \/ WorkerRead
    \/ WorkerEmit
    \/ DispatchFormat
    \/ DispatchSamples
    \/ DispatchLevel
    \/ DispatchFlush
    \/ DispatchLevelReturn
    \/ DispatchAudioReturn

SpecPipeline == Init /\ [][NextPipeline]_vars

\* stop_recording calls made so far: those that have sent their Flush, and
\* the one that has queued Stop and not yet sent it.
StopCalls ==
    Cardinality({i \in DOMAIN chan : chan[i].type = "Flush" /\ chan[i].src = "caller"})
        + (IF callerPc = "stop_flush" THEN 1 ELSE 0)

(* C13: with a listener registered, each stop_recording call causes at     *)
(* most one on_audio_data call, so at every moment no more on_audio_data   *)
(* calls have been made than stop_recording calls.                         *)
C13_OneDeliveryPerStop ==
    Len(AudioCallsOf(calls)) <= StopCalls

(* The whole program again, with a device that delivers fewer samples.     *)
NextState ==
    \/ SetListenerP
    \/ StartRecordingP
    \/ StopRecordingSendP
    \/ StopRecordingFlush
    \/ CommandThread
    \/ StreamError
    \/ AudioCallbackS
    \/ WorkerRead
    \/ WorkerEmit
    \/ DispatchFormat
    \/ DispatchSamples
    \/ DispatchLevel
    \/ DispatchFlush
    \/ DispatchLevelReturn
    \/ DispatchAudioReturn

SpecState == Init /\ [][NextState]_vars

\* start_recording queues its command; stop_recording queues its command;
\* stop_recording returns.
StartCallStep == nCmds' = nCmds + 1 /\ cmdQ' = Append(cmdQ, "Start")

StopCallStep == nCmds' = nCmds + 1 /\ cmdQ' = Append(cmdQ, "Stop")

StopReturnStep == callerPc = "stop_flush" /\ callerPc' = "idle"

(* C17: the recording flag is written by start_recording and               *)
(* stop_recording only: it is Recording when start_recording returns and   *)
(* Idle when stop_recording returns, and no step of the command thread     *)
(* (whether construction succeeds or fails), of the device, of a worker,   *)
(* of the dispatch loop or of set_listener changes it; so it still reads   *)
(* Recording after the command thread has failed to build the stream.      *)
C17_RecordingFlag ==
    /\ [][is_recording' # is_recording => (StartCallStep \/ StopCallStep)]_vars
    /\ [][StartCallStep => is_recording']_vars
    /\ [][StopCallStep => ~is_recording']_vars
    /\ [][StopReturnStep => ~is_recording']_vars
    /\ [][(FailedStartStep \/ StartOkStep \/ errored' # errored \/ rdIdx' # rdIdx
             \/ listener' # listener \/ chan' # chan \/ ring' # ring)
            => is_recording' = is_recording]_vars

\* start_recording was called once, the stream construction failed after
\* the Format packet (no stream is held, none was ever stopped), the
\* dispatch loop has handled that packet, a listener is set - and the
\* flag reads Recording.
C17_Witness ==
    /\ is_recording
    /\ nCmds = 1 /\ cmdQ = <<>>
    /\ stream = NoStream /\ openStreams = {} /\ stopped = {}
    /\ nBuilt = 1
    /\ rdIdx = 1
    /\ listener # NoListener

(* The whole program with a device that hands the callback whole hardware  *)
(* buffers of MaxPush samples, MaxPipeSamples at most to one stream:       *)
(* enough for a resampling session to fill a chunk.                        *)
AudioCallbackBuffers ==
    /\ \E w \in openStreams :
          /\ Len(written[w]) + MaxPush <= MaxPipeSamples
          /\ AudioCallbackOn(w, MaxPush)
    /\ UNCHANGED <<cmdQ, stream, openStreams, nBuilt, wpc, srcRate, acc, chunk, chan>>
    /\ UNCHANGED <<popped, appended, fedIn, nNoop, stopped, errored, polls>>
    /\ UNCHANGED <<appVars, dispVars, regVars>>

NextRate ==
    \/ SetListenerP
    \/ StartRecordingP
    \/ StopRecordingSendP
    \/ StopRecordingFlush
    \/ CommandThread
    \/ AudioCallbackBuffers
    \/ WorkerRead
    \/ WorkerEmit
    \/ DispatchFormat
    \/ DispatchSamples
    \/ DispatchLevel
    \/ DispatchFlush
    \/ DispatchLevelReturn
    \/ DispatchAudioReturn

SpecRate == Init /\ [][NextRate]_vars

\* The samples of the engine's Samples packets the dispatch loop has received.
EngineSamplesReceived ==
    \E i \in 1..rdIdx : chan[i].type = "Samples" /\ chan[i].src = "worker"

(* C21: for every native rate, the Format packet of a session is on the    *)
(* channel before every Samples packet of that session; whenever the       *)
(* dispatch loop holds samples of the engine its recorded rate is 16000,   *)
(* so a Flush hands the buffer to on_audio_data as it is, and what the     *)
(* listener gets are samples the worker appended (resampled by the worker  *)
(* when the device is not at 16000, and by nobody else).                   *)
C21_ConvertedOnce ==
    /\ [](\A i \in DOMAIN chan :
            (chan[i].type = "Samples" /\ chan[i].src = "worker") =>
                \E j \in 1..(i - 1) :
                    chan[j].type = "Format" /\ chan[j].sess = chan[i].sess)
    /\ []((EngineSamplesReceived \/ audio_buffer # <<>>) => sample_rate = TARGET_SAMPLE_RATE)
    /\ [][(RecvStep("Flush") /\ audio_buffer # <<>> /\ listener # NoListener)
            => calls' = Append(calls, AudioCall(listener, audio_buffer))]_vars
    /\ [](\A c \in DOMAIN calls :
            calls[c].kind = "audio" =>
                \A k \in DOMAIN calls[c].data :
                    \E w \in Sessions : \E a \in DOMAIN appended[w] :
                        appended[w][a] = calls[c].data[k])

\* on_audio_data is running with the chunk a worker resampled from a
\* 48000 Hz device, and the recorded rate is 16000.
C21_Witness ==
    /\ dpc = "audio_cb"
    /\ sample_rate = TARGET_SAMPLE_RATE
    /\ \E w \in Sessions :
          /\ srcRate[w] = 48000
          /\ fedIn[w] # <<>>
          /\ calls[Len(calls)].data = SubSeq(appended[w], 1, ASR_CHUNK_SIZE)

====
